---------------------------- MODULE Spec2Model ----------------------------
(***************************************************************************)
(* A model of the webflow Layout (view/layout.ts): the incremental         *)
(* reconciliation of a DOM tree against a sequence document, with          *)
(* per-segment checkpoints, anchored invalidation and deferred rendering.  *)
(*                                                                         *)
(* Layout itself is translated from layout.ts.  Its collaborators, which   *)
(* layout.ts only imports (FlowDocument, Dom, Scheduler, the local         *)
(* reference helpers and the formatters), are modelled from their          *)
(* description in the specification.                                       *)
(***************************************************************************)
EXTENDS Integers, Sequences, FiniteSets, TLC

\* ------------------------------------------------------------------ bounds

\* Segments ever created in the document (identifiers 1..MaxSegs).
MaxSegs == 4

\* Segments ever created where edits, passes, host calls and remove()
\* interleave freely (Spec, SpecFault).
MaxBatchedSegs == 3

\* Segments of the document a Layout is constructed on.
MaxInitSegs == 2

\* DOM nodes in use at a time besides the root (identifiers 1..MaxNodes).
MaxNodes == 8

\* The deepest format stack a formatter builds when it is followed call by
\* call.
MaxDepth == 2

\* Calls of the layout's methods the formatters make in a pass followed
\* call by call.
MaxCalls == 3

\* Calls of the layout's cursor and format methods the host makes outside a
\* pass.
MaxHostCalls == 1

\* --------------------------------------------------------------- constants

\* null / undefined / NaN, for node, segment, set and position valued fields.
Null == -1

\* undefined, where the code tells it from null: a field never assigned.
Undefined == -2

\* The element the layout renders into (Layout.root, Layout.slot).
ROOT == 0

SegIds == 1..MaxSegs
NodeIds == 0..MaxNodes
SetIds == 0..(MaxSegs + 1)

\* ------------------------------------------------------------- small helpers

Min(a, b) == IF a <= b THEN a ELSE b

Max(a, b) == IF a >= b THEN a ELSE b

Range(s) == {s[i] : i \in 1..Len(s)}

IndexOf(s, x) == CHOOSE i \in 1..Len(s) : s[i] = x

RemoveAt(s, i) == SubSeq(s, 1, i - 1) \o SubSeq(s, i + 1, Len(s))

InsertAt(s, i, x) == SubSeq(s, 1, i - 1) \o <<x>> \o SubSeq(s, i, Len(s))

\* clamp(min, value, max) of ../util.
clamp(lo, v, hi) == Min(Max(v, lo), hi)

\* ------------------------------------------------------- the document model
\* A document d is [order, kind, text, removed]: order lists the segments of
\* the document in position order; kind[s] is "text" or "para" (a paragraph
\* marker) and "none" for an identifier not used yet; text[s] is the text of
\* a text segment, a sequence of characters (each character is the
\* identifier of the segment it was typed as); removed is the set of
\* segments whose removedSeq is set.  A removed segment leaves the order.
\* The number removedSeq is set to comes with the removal: the layout reads
\* it while the removal is announced (line 378) and tests elsewhere only
\* that it is set (lines 206, 296).

\* ISegment.cachedLength
cachedLength(d, s) == IF d.kind[s] = "para" THEN 1 ELSE Len(d.text[s])

RECURSIVE SumLengths(_, _, _)
SumLengths(d, seq, n) ==
    IF n = 0 THEN 0 ELSE SumLengths(d, seq, n - 1) + cachedLength(d, seq[n])

\* FlowDocument.length
DocLength(d) == SumLengths(d, d.order, Len(d.order))

\* The position at which segment s of the order starts.
SegPosition(d, s) == SumLengths(d, d.order, IndexOf(d.order, s) - 1)

LiveSegs(d) == Range(d.order)

\* The sequence numbers a document stamps on the segments it removes: 0
\* while it is not collaborating, a number above 0 otherwise.
RemovedSeqs == {0, 1}

\* segment.removedSeq of a segment of an announced operation that stamps seq
\* on what it removes; Null: undefined.
removedSeq(d, s, seq) == IF s \in d.removed THEN seq ELSE Null

\* FlowDocument.getSegmentAndOffset(position), for 0 <= position < length.
getSegmentAndOffset(d, position) ==
    LET s == CHOOSE x \in LiveSegs(d) :
                 /\ SegPosition(d, x) <= position
                 /\ position < SegPosition(d, x) + cachedLength(d, x)
    IN [segment |-> s, offset |-> position - SegPosition(d, s)]

\* getSegmentRange(position, segment, offset) of ../util.
getSegmentRange(d, position, segment, offset) ==
    [start |-> position - offset,
     end   |-> position - offset + cachedLength(d, segment)]

\* The segments FlowDocument.visitRange(callback, start) offers to the
\* callback, in order: from the segment holding position start to the end.
RECURSIVE VisitFrom(_, _, _)
VisitFrom(d, start, i) ==
    IF i > Len(d.order) THEN <<>>
    ELSE LET s == d.order[i]
         IN IF SegPosition(d, s) + cachedLength(d, s) <= start
            THEN VisitFrom(d, start, i + 1)
            ELSE <<s>> \o VisitFrom(d, start, i + 1)

visitRange(d, start) == VisitFrom(d, start, 1)

\* A local reference is [seg, off]; seg = Null is the reference to the end
\* of the document.
EndRef == [seg |-> Null, off |-> 0]

\* FlowDocument.addLocalRef(position)
addLocalRef(d, position) ==
    IF position >= DocLength(d) THEN EndRef
    ELSE LET so == getSegmentAndOffset(d, position)
         IN [seg |-> so.segment, off |-> so.offset]

\* FlowDocument.localRefToPosition(ref)
localRefToPosition(d, ref) ==
    IF ref.seg = Null THEN DocLength(d)
    ELSE SegPosition(d, ref.seg) + ref.off

\* A reference when segment s, at index i of d.order, is removed: one into s
\* slides to the start of what follows s.
Slid(d, ref, s, i) ==
    IF ref.seg # s THEN ref
    ELSE IF i = Len(d.order) THEN EndRef
    ELSE [seg |-> d.order[i + 1], off |-> 0]

\* A reference when segment right is appended to left, which was shift
\* long: one into right moves into left with the text.
Rehomed(ref, left, right, shift) ==
    IF ref.seg = right THEN [seg |-> left, off |-> ref.off + shift] ELSE ref

\* ------------------------------------------------------------------ the DOM
\* A view v holds the DOM and the Layout's fields.  v.children[n] is the
\* sequence of child nodes of n, v.tag[n] is "none" for a node not created
\* yet, v.textContent[n] the text of a text node.

HasChild(v, p, n) == \E i \in 1..Len(v.children[p]) : v.children[p][i] = n

\* node.parentNode
parentNode(v, n) ==
    IF \E p \in NodeIds : HasChild(v, p, n)
    THEN CHOOSE p \in NodeIds : HasChild(v, p, n)
    ELSE Null

\* node.previousSibling
previousSibling(v, n) ==
    LET p == parentNode(v, n)
    IN IF p = Null THEN Null
       ELSE LET i == IndexOf(v.children[p], n)
            IN IF i = 1 THEN Null ELSE v.children[p][i - 1]

\* node.nextSibling
nextSibling(v, n) ==
    LET p == parentNode(v, n)
    IN IF p = Null THEN Null
       ELSE LET i == IndexOf(v.children[p], n)
            IN IF i = Len(v.children[p]) THEN Null ELSE v.children[p][i + 1]

\* node.firstChild
firstChild(v, n) == IF v.children[n] = <<>> THEN Null ELSE v.children[n][1]

\* ancestor.contains(n): n is ancestor or one of its descendants.
RECURSIVE contains(_, _, _)
contains(v, ancestor, n) ==
    IF n = Null THEN FALSE
    ELSE IF n = ancestor THEN TRUE
    ELSE contains(v, ancestor, parentNode(v, n))

\* The children function with n taken out of its parent's list.
Detached(v, n) ==
    LET p == parentNode(v, n)
    IN IF p = Null THEN v.children
       ELSE [v.children EXCEPT ![p] = RemoveAt(@, IndexOf(@, n))]

Fail(v, why) == [v EXCEPT !.err = why]

Mutated(v) == [v EXCEPT !.log.muts = @ + 1]

\* parent.removeChild(node)
removeChild(v, n) == Mutated([v EXCEPT !.children = Detached(v, n)])

\* Dom.insertAfter(parent, node, previous): parent.insertBefore(node, ref)
\* with ref the sibling after previous, or parent's first child when
\* previous is null.  The DOM refuses a ref that is not a child of parent
\* (NotFoundError) and a node that holds parent (HierarchyRequestError); a
\* call on the parent null throws (TypeError).
insertAfter(v, parent, node, previous) ==
    LET after == IF previous = Null THEN firstChild(v, parent)
                 ELSE nextSibling(v, previous)
        ref   == IF after = node THEN nextSibling(v, node) ELSE after
    IN IF parent = Null THEN Fail(v, "TypeError")
       ELSE IF contains(v, node, parent) THEN Fail(v, "HierarchyRequestError")
       ELSE IF after # Null /\ parentNode(v, after) # parent
       THEN Fail(v, "NotFoundError")
       ELSE LET ch  == Detached(v, node)
                sib == ch[parent]
                at  == IF ref = Null THEN Len(sib) + 1 ELSE IndexOf(sib, ref)
            IN Mutated([v EXCEPT !.children =
                            [ch EXCEPT ![parent] = InsertAt(sib, at, node)]])

\* Dom.removeAllChildren(root)
removeAllChildren(v, n) ==
    [v EXCEPT !.children[n] = <<>>,
              !.log.muts = @ + Len(v.children[n])]

\* The node document.createElement / createTextNode returns: one not created
\* before.
FreshNode(v) ==
    IF \E n \in NodeIds : v.tag[n] = "none"
    THEN CHOOSE n \in NodeIds :
             /\ v.tag[n] = "none"
             /\ \A m \in NodeIds : v.tag[m] = "none" => n <= m
    ELSE Null


\* ------------------------------------------------- Layout: nodes and cursor

\* _cursor = undefined; a cursor object whose parent is null (one popped off
\* a detached node) is another value.
NoCursor == [parent |-> Undefined, previous |-> Undefined]
\* Every operation takes and returns a view; v.err is "ok" until an
\* exception is thrown, and an operation reached with an exception in flight
\* does nothing (the exception propagates to the finally block of sync).

\* emptyObject of ../util, and the {} a formatter state starts from.
emptyObject == [root |-> Null]

\* Layout.rootFormatInfo
rootFormatInfo == [formatter |-> "Document", state |-> emptyObject]

\* Layout.format
format(v) ==
    IF Len(v.formatStack) > 0 THEN v.formatStack[Len(v.formatStack)]
    ELSE rootFormatInfo

\* Layout.removeNode
removeNode(v, node) ==
    LET v1 == [v EXCEPT !.nodeToSegmentMap[node] = Null]
    IN IF parentNode(v1, node) # Null THEN removeChild(v1, node) ELSE v1

RECURSIVE removeNodes(_, _)
removeNodes(v, nodes) ==
    IF nodes = {} THEN v
    ELSE LET n == CHOOSE x \in nodes : \A y \in nodes : x <= y
         IN removeNodes(removeNode(v, n), nodes \ {n})

\* removePending with line 321 left out: the nodes are removed and stay in
\* the pending set.
removePendingKeepsSet(v) == removeNodes(v, v.sets[v.pending])

\* Layout.removePending
removePending(v) ==
    [removeNodes(v, v.sets[v.pending]) EXCEPT !.sets[v.pending] = {}]

\* emitNode, lines 258-262: the bookkeeping once the node is in place.
Recorded(v, node) ==
    IF v.err # "ok" THEN v
    ELSE IF v.emitted = Null THEN Fail(v, "TypeError")
    ELSE [v EXCEPT !.sets[v.emitted] = @ \cup {node},
                   !.sets[v.pending] = @ \ {node},
                   !.cursor.previous = node,
                   !.nodeToSegmentMap[node] = v.segment]

\* Layout.emitNode
emitNode(v, node) ==
    IF v.err # "ok" THEN v
    ELSE IF v.cursor = NoCursor THEN Fail(v, "TypeError")
    ELSE Recorded(IF parentNode(v, node) # v.cursor.parent
                     \/ previousSibling(v, node) # v.cursor.previous
                  THEN insertAfter(v, v.cursor.parent, node, v.cursor.previous)
                  ELSE v,
                  node)

\* pushNode writing through a cursor object shared with the checkpoints it
\* was restored from: their cursor moves with it.
DescendedShared(v, node) ==
    IF v.err # "ok" THEN v
    ELSE [v EXCEPT !.cursor = [parent |-> node, previous |-> Null],
                   !.segmentToCheckpoint =
                       [s \in SegIds |->
                           IF @[s] # <<>> /\ @[s][1].cursor = v.cursor
                           THEN <<[@[s][1] EXCEPT !.cursor =
                                      [parent |-> node, previous |-> Null]]>>
                           ELSE @[s]]]

\* pushNode, lines 240-244: the cursor goes down into the node.
Descended(v, node) ==
    IF v.err # "ok" THEN v
    ELSE [v EXCEPT !.cursor = [parent |-> node, previous |-> Null]]

\* Layout.pushNode
pushNode(v, node) == Descended(emitNode(v, node), node)

\* document.createElement(tagName): the view with the new element in v.made.
createElement(v, tagName) ==
    IF FreshNode(v) = Null THEN Fail(v, "OutOfNodes")
    ELSE [v EXCEPT !.tag[FreshNode(v)] = tagName, !.made = FreshNode(v)]

\* layout.emitNode(node) with node the element just created.
EmitMade(v) == IF v.err # "ok" THEN v ELSE emitNode(v, v.made)

\* layout.pushNode(node) with node the element just created.
PushMade(v) == IF v.err # "ok" THEN v ELSE pushNode(v, v.made)

\* Layout.popNode.  On a cursor whose parent is null, line 272 writes
\* previous and line 273 throws on parent.parentNode.
popNode(v) ==
    IF v.err # "ok" THEN v
    ELSE IF v.cursor = NoCursor THEN Fail(v, "TypeError")
    ELSE IF v.cursor.parent = ROOT THEN Fail(v, "AssertionError")
    ELSE IF v.cursor.parent = Null
    THEN Fail([v EXCEPT !.cursor.previous = Null], "TypeError")
    ELSE LET parent == v.cursor.parent
             v1 == [v EXCEPT !.cursor = [parent   |-> parentNode(v, parent),
                                         previous |-> parent]]
         IN IF contains(v1, ROOT, v1.cursor.parent) THEN v1
            ELSE Fail(v1, "AssertionError")

\* emitText, lines 281-289: the text node of the segment, created on the
\* first encounter and updated in place when the text changed.
TextNodeReady(d, v) ==
    LET segment == v.segment
        text    == d.text[segment]
        cached  == v.segmentToTextMap[segment]
        node    == FreshNode(v)
    IN IF cached = Null
       THEN IF node = Null THEN Fail(v, "OutOfNodes")
            ELSE [v EXCEPT !.tag[node] = "text",
                           !.textContent[node] = text,
                           !.segmentToTextMap[segment] = node]
       ELSE IF v.textContent[cached] # text
       THEN Mutated([v EXCEPT !.textContent[cached] = text])
       ELSE v

\* emitText, line 291: emit the text node of the segment.
EmitTextNode(v) ==
    IF v.err # "ok" THEN v ELSE emitNode(v, v.segmentToTextMap[v.segment])

\* Layout.emitText
emitText(d, v) ==
    IF v.err # "ok" THEN v
    ELSE IF v.segment = Null THEN Fail(v, "TypeError")
    ELSE EmitTextNode(TextNodeReady(d, v))


\* ------------------------------------------------------------ the formatters
\* Three formatters in the shape the specification gives a formatter
\* (begin, end, visit -> done): the root "Document" formatter, "Paragraph"
\* (one <p> per paragraph) and "Text" (one <span> per run of text segments).
\* A formatter keeps the element it opened in state.root, so that a state
\* cloned from a checkpoint brings the element with it.

TagOf(formatter) == IF formatter = "Paragraph" THEN "p" ELSE "span"

\* Formatter.pushTag: push the element of the state, created when the state
\* has none; returns the view with the element in v.made.
pushTag(v, tagName, existing) ==
    LET node == IF existing # Null THEN existing ELSE FreshNode(v)
    IN IF node = Null THEN Fail(v, "OutOfNodes")
       ELSE [pushNode(IF existing # Null THEN v
                      ELSE [v EXCEPT !.tag[node] = tagName],
                      node)
                EXCEPT !.made = node]

\* formatter.begin(layout, state): the view, with the state as begin left it
\* in v.made.
FormatterBegin(v, formatter, state) ==
    pushTag(v, TagOf(formatter), state.root)

\* formatter.end(layout, state)
FormatterEnd(v, formatter, state) == popNode(v)

\* pushFormat, line 224: the scope goes on the format stack with the state
\* as begin left it.
Pushed(v, formatter) ==
    IF v.err # "ok" THEN v
    ELSE LET info == [formatter |-> formatter, state |-> [root |-> v.made]]
         IN [v EXCEPT !.formatStack = Append(@, info),
                      !.log.pushed = Append(@, [length |-> Len(v.formatStack) + 1,
                                                top    |-> info])]

\* pushFormat with the formatter comparison of line 219 left out: the state
\* at the depth is reused whatever formatter saved it.
pushFormatAnyKind(d, v, formatter) ==
    IF v.err # "ok" THEN v
    ELSE LET depth   == Len(v.formatStack)
             segment == v.segment
             checkpoint == v.segmentToCheckpoint[segment]
             hasCandidate ==
                 /\ checkpoint # <<>>
                 /\ depth + 1 <= Len(checkpoint[1].formatStack)
             state == IF hasCandidate
                      THEN checkpoint[1].formatStack[depth + 1].state
                      ELSE emptyObject
         IN IF ~v.formatStackSet \/ segment = Null
            THEN Fail(v, "TypeError")
            ELSE IF segment \in d.removed
            THEN Fail(v, "AssertionError")
            ELSE Pushed(FormatterBegin(
                            [v EXCEPT !.log.begins = Append(@,
                                 [formatter |-> formatter,
                                  segment   |-> segment,
                                  depth     |-> depth,
                                  state     |-> state])],
                            formatter, state),
                        formatter)

\* Layout.pushFormat
pushFormat(d, v, formatter) ==
    IF v.err # "ok" THEN v
    ELSE LET depth   == Len(v.formatStack)
             segment == v.segment
             checkpoint == v.segmentToCheckpoint[segment]
             hasCandidate ==
                 /\ checkpoint # <<>>
                 /\ depth + 1 <= Len(checkpoint[1].formatStack)
             sameKind ==
                 /\ hasCandidate
                 /\ checkpoint[1].formatStack[depth + 1].formatter = formatter
             state == IF sameKind
                      THEN checkpoint[1].formatStack[depth + 1].state
                      ELSE emptyObject
         IN IF ~v.formatStackSet \/ segment = Null
            THEN Fail(v, "TypeError")
            ELSE IF segment \in d.removed
            THEN Fail(v, "AssertionError")
            ELSE Pushed(FormatterBegin(
                            [v EXCEPT !.log.begins = Append(@,
                                 [formatter |-> formatter,
                                  segment   |-> segment,
                                  depth     |-> depth,
                                  state     |-> state])],
                            formatter, state),
                        formatter)

\* Layout.popFormat.  Line 228 reads formatStack.length: a TypeError while
\* the field is undefined.
popFormat(v) ==
    IF v.err # "ok" THEN v
    ELSE LET length == Len(v.formatStack)
         IN IF ~v.formatStackSet THEN Fail(v, "TypeError")
            ELSE IF length = 0 THEN Fail(v, "AssertionError")
            ELSE LET top == v.formatStack[length]
                     v1  == [v EXCEPT !.formatStack = SubSeq(@, 1, length - 1),
                                      !.log.ends = Append(@, top)]
                 IN FormatterEnd(v1, top.formatter, top.state)

\* The three visit methods.  Each returns the view with v.done set to what
\* visit returns.
DocumentVisit(d, v) ==
    [pushFormat(d, v, "Paragraph") EXCEPT !.done = d.kind[v.segment] = "para"]

ParagraphVisit(d, v) ==
    LET marker == d.kind[v.segment] = "para"
    IN [pushFormat(d, IF marker THEN popFormat(v) ELSE v,
                   IF marker THEN "Paragraph" ELSE "Text")
           EXCEPT !.done = marker]

TextVisit(d, v) ==
    IF d.kind[v.segment] = "text"
    THEN [emitText(d, v) EXCEPT !.done = TRUE]
    ELSE [popFormat(v) EXCEPT !.done = FALSE]

\* formatter.visit(layout, state); the formatter of segment v.fault throws.
FormatterVisit(d, v, formatter) ==
    IF v.segment = v.fault THEN Fail(v, "FormatterError")
    ELSE IF formatter = "Document" THEN DocumentVisit(d, v)
    ELSE IF formatter = "Paragraph" THEN ParagraphVisit(d, v)
    ELSE TextVisit(d, v)


\* ----------------------------------------------------- Layout: checkpoints

\* new LayoutCheckpoint(formatStack, cursor): copies of both.
LayoutCheckpoint(formatStack, cursor) ==
    [formatStack |-> formatStack, cursor |-> cursor]

\* Layout.initialCheckpoint
initialCheckpoint == LayoutCheckpoint(<<>>, [parent |-> ROOT, previous |-> Null])

\* saveCheckpoint, lines 326-342: the checkpoint is recorded once the pending
\* nodes are gone; v.done is the value returned (TRUE: go on to the next
\* segment).
Saved(v, end) ==
    LET previous == v.segmentToCheckpoint[v.segment]
    IN [v EXCEPT !.segmentToCheckpoint[v.segment] =
                     <<LayoutCheckpoint(v.formatStack, v.cursor)>>,
                 !.done =
                     \/ previous = <<>>
                     \/ v.position < end - 1
                     \/ v.cursor.parent # previous[1].cursor.parent
                     \/ v.cursor.previous # previous[1].cursor.previous]

\* Layout.saveCheckpoint(end).  With no active segment (a sync called from
\* the visit has cleared it) WeakMap.set throws on the key undefined, line
\* 328.
saveCheckpoint(d, v, end) ==
    IF v.err # "ok" THEN v
    ELSE IF v.segment = Null THEN Fail(removePending(v), "TypeError")
    ELSE Saved(removePending(v), end)

\* Layout.restoreCheckpoint(checkpoint); checkpoint is <<>> for undefined.
restoreCheckpoint(v, checkpoint) ==
    IF checkpoint = <<>> THEN Fail(v, "TypeError")
    ELSE LET v1 == [v EXCEPT !.formatStack = checkpoint[1].formatStack,
                             !.formatStackSet = TRUE,
                             !.cursor = checkpoint[1].cursor]
         IN IF contains(v1, ROOT, checkpoint[1].cursor.parent) THEN v1
            ELSE Fail(v1, "AssertionError")

\* Layout.removeSegment
removeSegment(v, segment) ==
    LET emitted == v.segmentToEmitted[segment]
        v1 == IF emitted # Null
              THEN [removeNodes(v, v.sets[emitted])
                       EXCEPT !.segmentToEmitted[segment] = Null]
              ELSE v
    IN [v1 EXCEPT !.segmentToCheckpoint[segment] = <<>>,
                  !.segmentToTextMap[segment] = Null]

\* ------------------------------------------------------------- Layout.sync

\* The Set objects the layout can reach.
LiveSets(v) ==
    ({v.pending, v.emitted} \cup {v.segmentToEmitted[s] : s \in SegIds})
        \ {Null}

\* new Set(): an object that is none of the reachable ones.
FreshSet(v) == CHOOSE i \in SetIds :
                   /\ i \notin LiveSets(v)
                   /\ \A j \in SetIds : j \notin LiveSets(v) => i <= j

\* The resume search with lines 121-134 left out: every pass restarts from
\* the initial checkpoint at position 0.
ResumeFromStart(d, v, start) ==
    [start |-> 0, checkpoint |-> <<initialCheckpoint>>]

\* sync, lines 119-134: the resume point of a pass asked to start at start.
RECURSIVE ResumePoint(_, _, _)
ResumePoint(d, v, start) ==
    IF start > 0
    THEN LET position == start - 1
             so    == getSegmentAndOffset(d, position)
             range == getSegmentRange(d, position, so.segment, so.offset)
         IN IF range.end = start
            THEN [start |-> start,
                  checkpoint |-> v.segmentToCheckpoint[so.segment]]
            ELSE ResumePoint(d, v, range.start)
    ELSE [start |-> start, checkpoint |-> <<initialCheckpoint>>]

RECURSIVE VisitLoop(_, _)

\* sync, lines 157-159: leave the loop when visit returned true.
Visited(d, v) == IF v.err # "ok" \/ v.done THEN v ELSE VisitLoop(d, v)

\* sync, lines 155-160: call visit on the active formatter until it is done.
VisitLoop(d, v) ==
    IF v.err # "ok" THEN v
    ELSE Visited(d, FormatterVisit(d, v, format(v).formatter))

\* sync, lines 143-153: the head of the visitRange callback.
BeginSegment(d, v, segment) ==
    LET v1 == [v EXCEPT !.position = SegPosition(d, segment),
                        !.segment = segment,
                        !.startOffset = 0,
                        !.endOffset = cachedLength(d, segment),
                        !.emitted = v.pending]
        prior == v1.segmentToEmitted[segment]
        v2 == [v1 EXCEPT !.pending =
                  IF prior # Null THEN prior ELSE FreshSet(v1)]
        v3 == [v2 EXCEPT !.sets[v2.pending] =
                             IF prior # Null THEN @ ELSE {},
                         !.segmentToEmitted[segment] = v2.emitted,
                         !.log.visits = Append(@,
                             [segment |-> segment,
                              prior   |-> IF prior # Null
                                          THEN v2.sets[prior] ELSE {},
                              emitted |-> v2.emitted,
                              pending |-> v2.pending,
                              stale   |-> v2.sets[v2.emitted]])]
    IN IF v3.sets[v3.emitted] # {} \/ v3.emitted = v3.pending
       THEN Fail(v3, "AssertionError")
       ELSE v3

RECURSIVE Walk(_, _, _, _)

\* visitRange goes on to the next segment while the callback returns true.
Continued(d, v, segs, end) ==
    IF v.err = "ok" /\ v.done THEN Walk(d, v, segs, end) ELSE v

\* sync, lines 142-161: doc.visitRange with the callback, over the segments
\* left to visit.
Walk(d, v, segs, end) ==
    IF v.err # "ok" \/ segs = <<>> THEN v
    ELSE Continued(d,
             saveCheckpoint(d,
                 VisitLoop(d, BeginSegment(d, v, Head(segs))), end),
             Tail(segs), end)

RECURSIVE PopAll(_)
PopAll(v) ==
    IF v.err # "ok" \/ Len(v.formatStack) = 0 THEN v
    ELSE PopAll(popFormat(v))

\* sync, lines 171-173: close the open formatters when the pass reached the
\* end of the document; v.log.length is length, read at line 104.
Unwound(d, v) ==
    IF v.position # Null /\ v.position >= v.log.length THEN PopAll(v) ELSE v

\* sync, lines 175-187; err is the exception the try block ended with.
Cleaned(v, err) ==
    IF v.err # "ok" THEN v
    ELSE [removePending(v) EXCEPT !.formatStack = <<>>,
                                  !.cursor = NoCursor,
                                  !.position = Null,
                                  !.err = err]

\* sync, lines 166-190: the finally block.  An exception thrown in it
\* replaces the one in flight and skips the rest of the block.
Finally(d, v) ==
    Cleaned(Unwound(d, [v EXCEPT !.segment = Null, !.startOffset = Null,
                                 !.endOffset = Null, !.err = "ok"]),
            v.err)

\* sync, lines 163-165
Advanced(d, v) ==
    IF v.err = "ok" /\ v.segment # Null
    THEN [v EXCEPT !.position = @ + cachedLength(d, v.segment)]
    ELSE v

\* sync, lines 141-165: the try block.
Try(d, v, start, end) == Advanced(d, Walk(d, v, visitRange(d, start), end))

\* sync, lines 141-190: the try and finally blocks, entered when restoring
\* the checkpoint did not throw.
Resumed(d, v, start, end) ==
    IF v.err # "ok" THEN v ELSE Finally(d, Try(d, v, start, end))

\* sync with lines 106-109 left out: an empty document is walked like any
\* other.
syncWalksEmpty(d, v, start0, end0) ==
    LET length == DocLength(d)
        start  == clamp(0, start0, length)
        end    == clamp(start, end0, length)
        resume == ResumePoint(d, v, start)
    IN Resumed(d,
           restoreCheckpoint(
               [v EXCEPT !.log.resume = <<resume.start, end>>,
                         !.log.length = length],
               resume.checkpoint),
           resume.start, end)

\* Layout.sync(start, end)
sync(d, v, start0, end0) ==
    LET length == DocLength(d)
        start  == clamp(0, start0, length)
        end    == clamp(start, end0, length)
        resume == ResumePoint(d, v, start)
    IN IF length = 0 THEN removeAllChildren(v, ROOT)
       ELSE Resumed(d,
                restoreCheckpoint(
                    [v EXCEPT !.log.resume = <<resume.start, end>>,
                              !.log.length = length],
                    resume.checkpoint),
                resume.start, end)


\* ----------------------------------------------------- Layout: invalidation
\* startInvalid and endInvalid are <<>> (undefined) or <<ref>>.

\* updateRef(doc, ref, position) of ../util/localref: keep the reference
\* when it already reads position, else replace it by one added at position.
updateRef(d, ref, position) ==
    IF ref # <<>> /\ localRefToPosition(d, ref[1]) = position THEN ref
    ELSE <<addLocalRef(d, position)>>

\* extractRef(doc, ref) of ../util/localref: the position the reference
\* reads (the reference is removed from the document).
extractRef(d, ref) == localRefToPosition(d, ref[1])

\* unionRef without the union: the new position replaces the pending one.
unionRefLast(d, position, ref) == updateRef(d, ref, position)

\* unionRef with fn = Math.min seeded with 0 in place of +Infinity.
unionRefFromZero(d, position, ref) ==
    updateRef(d, ref,
        IF ref = <<>> THEN 0
        ELSE Min(position, localRefToPosition(d, ref[1])))

\* Layout.unionRef with fn = Math.min, limit = +Infinity
unionRefMin(d, position, ref) ==
    updateRef(d, ref,
        IF ref = <<>> THEN position
        ELSE Min(position, localRefToPosition(d, ref[1])))

\* Layout.unionRef with fn = Math.max, limit = -Infinity
unionRefMax(d, position, ref) ==
    updateRef(d, ref,
        IF ref = <<>> THEN position
        ELSE Max(position, localRefToPosition(d, ref[1])))

\* ------------------------------------------------------------------- state

VARIABLES
    doc,            \* the FlowDocument: [order, kind, text, removed]
    view,           \* the DOM under root and the Layout's fields
    startInvalid,   \* Layout.startInvalid: <<>> or <<ref>>
    endInvalid,     \* Layout.endInvalid: <<>> or <<ref>>
    scheduled,      \* the coalesced render callback waits for the turn's end
    subscribed,     \* onChange is registered with the document
    renderPromise,  \* Layout.renderPromise: "done" or the "latest" one made
    renderResolver, \* the promise Layout.renderResolver resolves, or "none"
    unresolved,     \* the promises handed out and not resolved: "latest",
                    \* and "earlier" for those made before the latest
    wantLo,         \* the start references of the ranges invalidated since
                    \* the last scheduled pass that read lowest
    wantHi,         \* the end references of those ranges that read highest
    obs             \* what the last handler was and how it ended

vars == <<doc, view, startInvalid, endInvalid, scheduled, subscribed,
          renderPromise, renderResolver, unresolved, wantLo, wantHi, obs>>

BlankLog == [muts |-> 0, begins |-> <<>>, pushed |-> <<>>, ends |-> <<>>,
             visits |-> <<>>, resume |-> <<>>, length |-> Null, calls |-> 0]

\* The fields of a Layout as its field initialisers leave them (lines 40-80),
\* over an empty root.  formatStack has no initialiser (line 52): the field
\* is undefined, formatStackSet FALSE, until restoreCheckpoint assigns it.
NewView ==
    [children    |-> [n \in NodeIds |-> <<>>],
     tag         |-> [n \in NodeIds |-> IF n = ROOT THEN "root" ELSE "none"],
     textContent |-> [n \in NodeIds |-> <<>>],
     segmentToCheckpoint |-> [s \in SegIds |-> <<>>],
     nodeToSegmentMap    |-> [n \in NodeIds |-> Null],
     segmentToTextMap    |-> [s \in SegIds |-> Null],
     segmentToEmitted    |-> [s \in SegIds |-> Null],
     sets        |-> [i \in SetIds |-> {}],
     emitted     |-> Null,
     pending     |-> 0,
     formatStack |-> <<>>,
     formatStackSet |-> FALSE,
     cursor      |-> NoCursor,
     position    |-> Null,
     segment     |-> Null,
     startOffset |-> Null,
     endOffset   |-> Null,
     err         |-> "ok",
     made        |-> Null,
     done        |-> FALSE,
     fault       |-> Null,
     hostCalls   |-> 0,
     log         |-> BlankLog]

\* The view a handler starts from: no exception in flight, an empty log; the
\* formatter throws on segment fault (Null: on none).
Enter(v, fault) == [v EXCEPT !.err = "ok", !.log = BlankLog, !.fault = fault]

\* The name a Set object is known by between handlers: 0 for the pending
\* set, the least segment that holds it and, for a set only this.emitted
\* holds, MaxSegs + 1.  Set objects have no identity beyond who holds them.
SetName(v, o) ==
    IF o = v.pending THEN 0
    ELSE IF \E s \in SegIds : v.segmentToEmitted[s] = o
    THEN CHOOSE s \in SegIds :
             /\ v.segmentToEmitted[s] = o
             /\ \A t \in SegIds : v.segmentToEmitted[t] = o => s <= t
    ELSE MaxSegs + 1

\* The nodes a checkpoint refers to.
CheckpointNodes(cp) ==
    {cp.cursor.parent, cp.cursor.previous}
        \cup {cp.formatStack[i].state.root : i \in 1..Len(cp.formatStack)}

\* The nodes the layout's fields refer to.
Referenced(v) ==
    UNION {CheckpointNodes(v.segmentToCheckpoint[s][1]) :
               s \in {x \in SegIds : v.segmentToCheckpoint[x] # <<>>}}
        \cup UNION {v.sets[o] : o \in LiveSets(v)}
        \cup {v.segmentToTextMap[s] : s \in SegIds}
        \cup {v.cursor.parent, v.cursor.previous}
        \cup {v.formatStack[i].state.root : i \in 1..Len(v.formatStack)}

\* The nodes nothing can reach any more: created, outside every tree and
\* every field of the layout.  Their identifiers stand for new nodes again.
Unreachable(v) ==
    {n \in NodeIds \ {ROOT} :
        /\ v.tag[n] # "none"
        /\ parentNode(v, n) = Null
        /\ v.children[n] = <<>>
        /\ n \notin Referenced(v)}

\* The view a handler leaves: Set objects renamed, unreachable nodes
\* forgotten, the model's scratch fields and log cleared.
Leave(v) ==
    LET live == LiveSets(v)
        free == Unreachable(v)
    IN [v EXCEPT
           !.sets = [i \in SetIds |->
                        IF \E o \in live : SetName(v, o) = i
                        THEN v.sets[CHOOSE o \in live : SetName(v, o) = i]
                        ELSE {}],
           !.pending = 0,
           !.emitted = IF v.emitted = Null THEN Null
                       ELSE SetName(v, v.emitted),
           !.segmentToEmitted =
               [s \in SegIds |-> IF v.segmentToEmitted[s] = Null THEN Null
                                 ELSE SetName(v, v.segmentToEmitted[s])],
           !.tag = [n \in NodeIds |-> IF n \in free THEN "none" ELSE v.tag[n]],
           !.textContent = [n \in NodeIds |->
                               IF n \in free THEN <<>> ELSE v.textContent[n]],
           !.nodeToSegmentMap =
               [n \in NodeIds |->
                   IF n \in free THEN Null ELSE v.nodeToSegmentMap[n]],
           !.err = "ok", !.made = Null, !.done = FALSE, !.fault = Null,
           !.log = BlankLog]

EmptyDoc ==
    [order   |-> <<>>,
     kind    |-> [s \in SegIds |-> "none"],
     text    |-> [s \in SegIds |-> <<>>],
     removed |-> {}]

\* The identifier the next inserted segment gets.
FreshSeg(d) == CHOOSE s \in SegIds :
                   /\ d.kind[s] = "none"
                   /\ \A t \in SegIds : d.kind[t] = "none" => s <= t

\* d with a new segment of kind k put at index i of the order.
Inserted(d, i, k) ==
    LET s == FreshSeg(d)
    IN [d EXCEPT !.order = InsertAt(@, i, s),
                 !.kind[s] = k,
                 !.text[s] = IF k = "text" THEN <<s>> ELSE <<>>]

RECURSIVE InitDocsOf(_)
InitDocsOf(n) ==
    IF n = 0 THEN {EmptyDoc}
    ELSE LET smaller == InitDocsOf(n - 1)
         IN smaller \cup
            {Inserted(d, Len(d.order) + 1, k) :
                 d \in {x \in smaller : Len(x.order) = n - 1},
                 k \in {"text", "para"}}

\* The rendered tree under n as a host sees it: tags, text and order, not
\* node identity.
RECURSIVE Shape(_, _)
Shape(v, n) ==
    [tag  |-> v.tag[n],
     text |-> v.textContent[n],
     kids |-> [i \in 1..Len(v.children[n]) |-> Shape(v, v.children[n][i])]]

\* What the last handler was: its name; err: the exception it threw, or
\* "ok"; gone: the nodes that the segments of its event that are marked
\* removed had emitted; full:
\* <<the tree a full sync would have left in place of a scheduled pass>>.
Op(name, err) == [op |-> name, err |-> err, gone |-> {}, full |-> <<>>]

\* Layout.constructor, lines 82-93, on a document of at most MaxInitSegs
\* segments.
Init ==
    /\ doc \in InitDocsOf(MaxInitSegs)
    /\ view = Leave(sync(doc, Enter(NewView, Null), 0, DocLength(doc)))
    /\ startInvalid = <<>>
    /\ endInvalid = <<>>
    /\ scheduled = FALSE
    /\ subscribed = TRUE
    /\ renderPromise = "done"
    /\ renderResolver = "none"
    /\ unresolved = {}
    /\ wantLo = {}
    /\ wantHi = {}
    /\ obs = Op("constructor", "ok")

\* ---------------------------------------------------------------- handlers

RECURSIVE removeSegments(_, _)
removeSegments(v, segs) ==
    IF segs = {} THEN v
    ELSE LET s == CHOOSE x \in segs : \A y \in segs : x <= y
         IN removeSegments(removeSegment(v, s), segs \ {s})

\* The nodes in the emitted sets the view records for segs.
EmittedBy(v, segs) ==
    UNION {IF v.segmentToEmitted[s] = Null THEN {}
           ELSE v.sets[v.segmentToEmitted[s]] : s \in segs}

\* The references of refs that read lowest in d.
Lowest(d, refs) ==
    {r \in refs : \A q \in refs :
        localRefToPosition(d, r) <= localRefToPosition(d, q)}

\* The references of refs that read highest in d.
Highest(d, refs) ==
    {r \in refs : \A q \in refs :
        localRefToPosition(d, r) >= localRefToPosition(d, q)}

\* onChange, lines 384-386: the right-hand side of an APPEND is removed.
Absorbed(v, right) == IF right # Null THEN removeSegment(v, right) ELSE v

\* Layout.onChange(e) for an event of the document d: e.ranges holds the
\* segments ranges, e.deltaArgs.deltaSegments[1] is right when the event is
\* an APPEND (Null otherwise), and e.start, e.end are start and end.  With
\* invalidate (lines 402-411) and the scheduler's coalesce.  sRef, eRef, lo
\* and hi are the references as the document holds them after the edit, seq
\* the number the operation stamps on what it removes.  Line 378 tests the
\* truthiness of removedSeq: undefined and 0 are both false.
onChange(d, seq, ranges, right, start, end, sRef, eRef, lo, hi) ==
    LET gone == {s \in ranges : removedSeq(d, s, seq) \notin {Null, 0}}
    IN /\ view' = Leave(Absorbed(removeSegments(Enter(view, Null), gone),
                                 right))
       /\ startInvalid' = unionRefMin(d, start, sRef)
       /\ endInvalid' = unionRefMax(d, end, eRef)
       /\ scheduled' = TRUE
       /\ renderPromise' = "latest"
       /\ renderResolver' = "latest"
       /\ unresolved' = {"latest"} \cup
              (IF unresolved # {} THEN {"earlier"} ELSE {})
       /\ wantLo' = Lowest(d, lo \cup {addLocalRef(d, start)})
       /\ wantHi' = Highest(d, hi \cup {addLocalRef(d, end)})
       /\ obs' = [Op("onChange", "ok") EXCEPT
                     !.gone = EmittedBy(view, ranges \cap d.removed)]

\* The document emits an event: the layout hears it while subscribed.
Emit(d, seq, ranges, right, start, end, sRef, eRef, lo, hi) ==
    IF subscribed
    THEN onChange(d, seq, ranges, right, start, end, sRef, eRef, lo, hi)
    ELSE /\ UNCHANGED <<view, scheduled, renderPromise, renderResolver,
                        unresolved>>
         /\ startInvalid' = sRef
         /\ endInvalid' = eRef
         /\ wantLo' = lo
         /\ wantHi' = hi
         /\ obs' = Op("unheard", "ok")

\* A segment of kind k is inserted at index i of the order ("sequenceDelta"),
\* the document having created fewer than n segments so far.
DocInsert(i, k, n) ==
    /\ \E s \in 1..n : doc.kind[s] = "none"
    /\ LET d == Inserted(doc, i, k)
           p == SegPosition(d, FreshSeg(doc))
       IN /\ doc' = d
          /\ Emit(d, Null, {FreshSeg(doc)}, Null, p, p + 1,
                  startInvalid, endInvalid, wantLo, wantHi)
    /\ UNCHANGED subscribed

\* Segment s is marked removed ("sequenceDelta"), its removedSeq set to seq.
DocRemove(s, seq) ==
    /\ s \in LiveSegs(doc)
    /\ LET i == IndexOf(doc.order, s)
           p == SegPosition(doc, s)
           d == [doc EXCEPT !.order = RemoveAt(@, i),
                            !.removed = @ \cup {s}]
           Move(ref) == Slid(doc, ref, s, i)
       IN /\ doc' = d
          /\ Emit(d, seq, {s}, Null, p, p + cachedLength(doc, s),
                  [j \in 1..Len(startInvalid) |-> Move(startInvalid[j])],
                  [j \in 1..Len(endInvalid) |-> Move(endInvalid[j])],
                  {Move(r) : r \in wantLo}, {Move(r) : r \in wantHi})
    /\ UNCHANGED subscribed

\* The text segment at index i + 1 is appended to the one at index i
\* ("maintenance", MergeTreeMaintenanceType.APPEND).
DocAppend(i) ==
    /\ i + 1 <= Len(doc.order)
    /\ doc.kind[doc.order[i]] = "text"
    /\ doc.kind[doc.order[i + 1]] = "text"
    /\ LET left  == doc.order[i]
           right == doc.order[i + 1]
           shift == Len(doc.text[left])
           d == [doc EXCEPT !.order = RemoveAt(@, i + 1),
                            !.text[left] = @ \o doc.text[right]]
           p == SegPosition(d, left)
           Move(ref) == Rehomed(ref, left, right, shift)
       IN /\ doc' = d
          /\ Emit(d, Null, {left}, right, p, p + cachedLength(d, left),
                  [j \in 1..Len(startInvalid) |-> Move(startInvalid[j])],
                  [j \in 1..Len(endInvalid) |-> Move(endInvalid[j])],
                  {Move(r) : r \in wantLo}, {Move(r) : r \in wantHi})
    /\ UNCHANGED subscribed

\* The pass Layout.render runs when the scheduler fires now.
ScheduledPass(fault) ==
    sync(doc, Enter(view, fault),
         extractRef(doc, startInvalid), extractRef(doc, endInvalid))

\* sync(0, length) run in place of it.
FullPass(fault) == sync(doc, Enter(view, fault), 0, DocLength(doc))

\* render, lines 421-422: v is the view the pass left; the resolver is
\* called when sync returned.  full is the view sync(0, length) would have
\* left.
Rendered(v, full) ==
    /\ v.err # "OutOfNodes"
    /\ full.err # "OutOfNodes"
    /\ view' = Leave(v)
    /\ unresolved' = IF v.err = "ok" THEN unresolved \ {renderResolver}
                     ELSE unresolved
    /\ obs' = [Op("render", v.err) EXCEPT
                  !.full = <<Shape(Leave(full), ROOT)>>]

\* Layout.render, lines 413-423, run by the scheduler at the end of the
\* turn.
Render(fault) ==
    /\ scheduled
    /\ Rendered(ScheduledPass(fault), FullPass(fault))
    /\ startInvalid' = <<>>
    /\ endInvalid' = <<>>
    /\ scheduled' = FALSE
    /\ wantLo' = {}
    /\ wantHi' = {}
    /\ UNCHANGED <<doc, subscribed, renderPromise, renderResolver>>

\* The view a pass called by the host leaves.
Synced(v) ==
    /\ v.err # "OutOfNodes"
    /\ view' = Leave(v)
    /\ obs' = Op("sync", v.err)

\* The host calls layout.sync(start, end).  Line 117 clamps end to start or
\* above: a call with end below start is the call with end = start.
HostSync(start, end, fault) ==
    /\ Synced(sync(doc, Enter(view, fault), start, end))
    /\ UNCHANGED <<doc, startInvalid, endInvalid, scheduled, subscribed,
                   renderPromise, renderResolver, unresolved, wantLo, wantHi>>

\* Layout.remove, lines 95-99
LayoutRemove ==
    /\ subscribed' = FALSE
    /\ view' = Leave(removeAllChildren(Enter(view, Null), ROOT))
    /\ obs' = Op("remove", "ok")
    /\ UNCHANGED <<doc, startInvalid, endInvalid, scheduled, renderPromise,
                   renderResolver, unresolved, wantLo, wantHi>>

\* The view a call of a public method by the host leaves, outside any pass.
HostCall(v) ==
    /\ view.hostCalls < MaxHostCalls
    /\ v.err # "OutOfNodes"
    /\ view' = [Leave(v) EXCEPT !.hostCalls = @ + 1]
    /\ obs' = Op("call", v.err)
    /\ UNCHANGED <<doc, startInvalid, endInvalid, scheduled, subscribed,
                   renderPromise, renderResolver, unresolved, wantLo, wantHi>>

\* The host calls layout.popNode().
HostPopNode == HostCall(popNode(Enter(view, Null)))

\* The host calls layout.popFormat().
HostPopFormat == HostCall(popFormat(Enter(view, Null)))

\* The host calls layout.pushNode(node) with a new element.
HostPushNode == HostCall(PushMade(createElement(Enter(view, Null), "div")))

\* The host calls layout.emitNode(node) with a new element.
HostEmitNode == HostCall(EmitMade(createElement(Enter(view, Null), "div")))

\* The host calls layout.pushFormat(formatter).
HostPushFormat(formatter) ==
    HostCall(pushFormat(doc, Enter(view, Null), formatter))

\* The host calls layout.emitText().
HostEmitText == HostCall(emitText(doc, Enter(view, Null)))

\* An edit of a document that creates at most n segments and stamps a
\* number of seqs on what it removes.
Edit(n, seqs) ==
    \/ \E i \in 1..(Len(doc.order) + 1), k \in {"text", "para"} :
           DocInsert(i, k, n)
    \/ \E s \in SegIds, seq \in seqs : DocRemove(s, seq)
    \/ \E i \in 1..Len(doc.order) : DocAppend(i)

\* Everything the layout's interface allows outside a pass: the document is
\* edited, the scheduler runs the pass, and the host calls sync, remove or
\* one of the other public methods, before or after remove.
Next ==
    \/ Edit(MaxInitSegs, RemovedSeqs)
    \/ Render(Null)
    \/ \E a \in 0..DocLength(doc) : \E b \in a..DocLength(doc) :
           HostSync(a, b, Null)
    \/ LayoutRemove
    \/ HostPopNode
    \/ HostPopFormat
    \/ HostPushNode
    \/ HostEmitNode
    \/ \E f \in {"Paragraph", "Text"} : HostPushFormat(f)
    \/ HostEmitText

Spec == Init /\ [][Next]_vars

\* A layout that is not removed, over a longer document that collaborates
\* (its removals are stamped above 0): edits, scheduled passes and passes
\* called by the host.
Collaborating == RemovedSeqs \ {0}

NextLive ==
    \/ Edit(MaxBatchedSegs, Collaborating)
    \/ Render(Null)
    \/ \E a \in 0..DocLength(doc) : \E b \in a..DocLength(doc) :
           HostSync(a, b, Null)

SpecLive == Init /\ [][NextLive]_vars

\* A live layout whose formatters may throw: the visit of segment f throws
\* in the scheduled pass, or in a sync over the whole document called by the
\* host.
NextFault ==
    \/ Edit(MaxInitSegs, RemovedSeqs)
    \/ \E f \in LiveSegs(doc) \cup {Null} : Render(f)
    \/ \E f \in LiveSegs(doc) \cup {Null} : HostSync(0, DocLength(doc), f)

SpecFault == Init /\ [][NextFault]_vars


\* Edits applied one after another, the scheduled pass running after each.
NextSeq ==
    \/ ~scheduled /\ Edit(MaxSegs, RemovedSeqs)
    \/ Render(Null)

SpecSeq == Init /\ [][NextSeq]_vars

\* ------------------------------------------------- a pass, call by call
\* The formatters are the host's code: during a visit a formatter may call
\* any of the layout's public methods, in any order, before it returns.  A
\* pass over [a, length) is followed here one call at a time; view holds the
\* layout in the middle of the pass (view.segment is the active segment,
\* view.log.resume the start and end of the pass, <<>> outside a pass) and
\* view.err the exception in flight.

InPass(v) == v.log.resume # <<>>

InVisit == InPass(view) /\ view.err = "ok"

\* The formatter may go on calling the layout.
MayCall == InVisit /\ view.log.calls < MaxCalls

\* No pass is under way and none has been followed call by call: the pass
\* followed call by call is the last one of a behaviour.
BetweenPasses ==
    /\ ~InPass(view)
    /\ view.err = "ok"
    /\ obs.op \in {"constructor", "onChange", "render"}

\* The view a call starts from: the log holds what this call does, and the
\* number of calls made in the pass.
InCall(v) ==
    [v EXCEPT !.log = [BlankLog EXCEPT !.resume = v.log.resume,
                                       !.length = v.log.length,
                                       !.calls = v.log.calls + 1]]

\* The view visit returns to: the log holds what the step does.
Returning(v) ==
    [v EXCEPT !.log = [BlankLog EXCEPT !.resume = v.log.resume,
                                       !.length = v.log.length,
                                       !.calls = v.log.calls]]

\* sync returns or throws: the pass is over.
Over(v) == [v EXCEPT !.log.resume = <<>>]

\* sync, lines 163-190: the try block ends and the finally block runs.
Ended(d, v) == Over(Finally(d, Advanced(d, v)))

\* sync, lines 141-142: restoring the checkpoint threw (no try block yet),
\* or visitRange calls the callback on the first segment, if any.
Begun(d, v, segs) ==
    IF v.err # "ok" THEN Over(v)
    ELSE IF segs = <<>> THEN Ended(d, v)
    ELSE BeginSegment(d, v, Head(segs))

\* The view a step of the pass leaves: v as it is while the pass goes on,
\* and as sync leaves it when the pass is over, with the exception sync
\* throws in obs.
Stepped(v, name) ==
    /\ v.err # "OutOfNodes"
    /\ view' = IF InPass(v) THEN v ELSE Leave(v)
    /\ obs' = Op(name, v.err)
    /\ UNCHANGED <<doc, startInvalid, endInvalid, scheduled, subscribed,
                   renderPromise, renderResolver, unresolved, wantLo, wantHi>>

\* The host calls sync(a, length): lines 102-153, up to the first call of
\* visit, and lines 106-109 on an empty document, where sync empties the
\* root and returns.
PassBegins(a) ==
    /\ BetweenPasses
    /\ IF DocLength(doc) = 0
       THEN Synced(removeAllChildren(Enter(view, Null), ROOT))
            /\ UNCHANGED <<doc, startInvalid, endInvalid, scheduled,
                           subscribed, renderPromise, renderResolver,
                           unresolved, wantLo, wantHi>>
       ELSE Stepped(Begun(doc,
                          restoreCheckpoint(
                              [Enter(view, Null) EXCEPT
                                  !.log.resume =
                                      <<ResumePoint(doc, view, a).start,
                                        DocLength(doc)>>,
                                  !.log.length = DocLength(doc)],
                              ResumePoint(doc, view, a).checkpoint),
                          visitRange(doc, ResumePoint(doc, view, a).start)),
                    "visitRange")

\* The view a call of a public method leaves, the exception it threw in
\* view.err.
Returned(v, name) ==
    /\ v.err # "OutOfNodes"
    /\ view' = v
    /\ obs' = Op(name, v.err)
    /\ UNCHANGED <<doc, startInvalid, endInvalid, scheduled, subscribed,
                   renderPromise, renderResolver, unresolved, wantLo, wantHi>>

\* The formatter calls layout.pushFormat(formatter).
CallPushFormat(formatter) ==
    /\ MayCall
    /\ Len(view.formatStack) < MaxDepth
    /\ Returned(pushFormat(doc, InCall(view), formatter), "pushFormat")

\* The formatter calls layout.popFormat().
CallPopFormat == MayCall /\ Returned(popFormat(InCall(view)), "popFormat")

\* The host calls layout.popFormat() outside any pass; the exception it
\* throws stays in view.err.
HostCallsPopFormat ==
    BetweenPasses /\ Returned(popFormat(InCall(view)), "popFormat")

\* The formatter calls layout.popNode().
CallPopNode == MayCall /\ Returned(popNode(InCall(view)), "popNode")

\* The formatter calls layout.pushNode(node) with a new element.
CallPushNode ==
    MayCall /\ Returned(PushMade(createElement(InCall(view), "div")), "pushNode")

\* The formatter calls layout.emitNode(node) with a new element.
CallEmitNode ==
    MayCall /\ Returned(EmitMade(createElement(InCall(view), "div")), "emitNode")

\* The formatter calls layout.emitText() on a text segment.
CallEmitText ==
    /\ MayCall
    /\ view.segment # Null => doc.kind[view.segment] = "text"
    /\ Returned(emitText(doc, InCall(view)), "emitText")

\* The formatter calls layout.sync(start, end): the nested pass runs to its
\* end, finally block included, and returns or throws into the visit.  The
\* start, end and length of the pass under way are locals of its own call.
CallSync(start, end) ==
    /\ MayCall
    /\ Returned([sync(doc, InCall(view), start, end) EXCEPT
                     !.log = InCall(view).log],
                "sync")

\* The formatter calls layout.remove() (lines 95-99).
CallLayoutRemove ==
    /\ MayCall
    /\ subscribed' = FALSE
    /\ view' = removeAllChildren(InCall(view), ROOT)
    /\ obs' = Op("remove", "ok")
    /\ UNCHANGED <<doc, startInvalid, endInvalid, scheduled, renderPromise,
                   renderResolver, unresolved, wantLo, wantHi>>

\* The formatter removes the active segment from the document; onChange
\* (lines 375-389) runs before the call returns, while the layout is
\* subscribed.
CallDocRemove(seq) ==
    /\ MayCall
    /\ view.segment \in LiveSegs(doc)
    /\ LET s == view.segment
           i == IndexOf(doc.order, s)
           p == SegPosition(doc, s)
           d == [doc EXCEPT !.order = RemoveAt(@, i),
                            !.removed = @ \cup {s}]
           Move(ref) == Slid(doc, ref, s, i)
       IN /\ doc' = d
          /\ view' = IF subscribed /\ removedSeq(d, s, seq) \notin {Null, 0}
                     THEN removeSegment(InCall(view), s)
                     ELSE InCall(view)
          /\ startInvalid' =
                 IF subscribed
                 THEN unionRefMin(d, p,
                          [j \in 1..Len(startInvalid) |-> Move(startInvalid[j])])
                 ELSE [j \in 1..Len(startInvalid) |-> Move(startInvalid[j])]
          /\ endInvalid' =
                 IF subscribed
                 THEN unionRefMax(d, p + cachedLength(doc, s),
                          [j \in 1..Len(endInvalid) |-> Move(endInvalid[j])])
                 ELSE [j \in 1..Len(endInvalid) |-> Move(endInvalid[j])]
          /\ wantLo' =
                 IF subscribed
                 THEN Lowest(d, {Move(r) : r \in wantLo}
                                    \cup {addLocalRef(d, p)})
                 ELSE {Move(r) : r \in wantLo}
          /\ wantHi' =
                 IF subscribed
                 THEN Highest(d, {Move(r) : r \in wantHi}
                          \cup {addLocalRef(d, p + cachedLength(doc, s))})
                 ELSE {Move(r) : r \in wantHi}
    /\ scheduled' = (scheduled \/ subscribed)
    /\ renderPromise' = IF subscribed THEN "latest" ELSE renderPromise
    /\ renderResolver' = IF subscribed THEN "latest" ELSE renderResolver
    /\ unresolved' =
           IF subscribed
           THEN {"latest"} \cup (IF unresolved # {} THEN {"earlier"} ELSE {})
           ELSE unresolved
    /\ obs' = Op(IF subscribed THEN "onChange" ELSE "unheard", "ok")
    /\ UNCHANGED subscribed

\* visitRange after the callback returned: on to the segment that follows
\* while the callback returns true, else out of the try block.
Moved(d, v, segs) ==
    IF v.err # "ok" THEN v
    ELSE IF v.done /\ segs # <<>> THEN BeginSegment(d, v, Head(segs))
    ELSE Ended(d, v)

\* The position after the active segment, where visitRange goes on.
Onward(d, v) ==
    IF v.segment = Null \/ v.segment \in d.removed THEN v.position
    ELSE v.position + cachedLength(d, v.segment)

\* visit returns true: lines 157-159 save the checkpoint, and visitRange
\* goes on or the pass ends.
VisitReturns ==
    /\ InVisit
    /\ Stepped(Moved(doc,
                     saveCheckpoint(doc, Returning(view), view.log.resume[2]),
                     visitRange(doc, Onward(doc, view))),
               "visit")

\* The exception in flight leaves the try block: the finally block runs and
\* sync throws.
Unwinds ==
    /\ InPass(view)
    /\ view.err # "ok"
    /\ Synced(Finally(doc, view))
    /\ UNCHANGED <<doc, startInvalid, endInvalid, scheduled, subscribed,
                   renderPromise, renderResolver, unresolved, wantLo, wantHi>>

NextCalls ==
    \/ BetweenPasses /\ Edit(MaxInitSegs, RemovedSeqs)
    \/ BetweenPasses /\ Render(Null)
    \/ \E a \in 0..DocLength(doc) : PassBegins(a)
    \/ \E f \in {"Paragraph", "Text"} : CallPushFormat(f)
    \/ CallPopFormat
    \/ HostCallsPopFormat
    \/ CallPopNode
    \/ CallPushNode
    \/ CallEmitNode
    \/ CallEmitText
    \/ \E seq \in RemovedSeqs : CallDocRemove(seq)
    \/ CallLayoutRemove
    \/ \E a \in 0..DocLength(doc) : \E b \in a..DocLength(doc) : CallSync(a, b)
    \/ VisitReturns
    \/ Unwinds

SpecCalls == Init /\ [][NextCalls]_vars

\* ------------------------------------------------------------------ claims

Positions == 0..DocLength(doc)

\* The pass sync(a, b) would run from the current state.
PassOver(a, b) == sync(doc, Enter(view, Null), a, b)

\* C1: after each edit, the scheduled pass over the edit's invalidated range
\* leaves the same tree under the root (tags, order, text) as sync(0, length)
\* run in its place.
IncrementalEqualsFull ==
    (obs.op = "render" /\ obs.err = "ok") => obs.full = <<Shape(view, ROOT)>>

\* C2: once a scheduled pass has completed, every completion signal handed
\* out by an invalidate call is resolved, those of earlier calls included.
EverySignalResolved ==
    (obs.op = "render" /\ obs.err = "ok") => unresolved = {}

\* C3: after remove() the root has no children, whatever runs later, a
\* render callback scheduled before remove() included.
RemovedLayoutIsInert == ~subscribed => view.children[ROOT] = <<>>

\* Every saved checkpoint's cursor.parent is the root or under it.
Contained(v) ==
    \A s \in SegIds : \A i \in 1..Len(v.segmentToCheckpoint[s]) :
        contains(v, ROOT, v.segmentToCheckpoint[s][i].cursor.parent)

\* C4: between the operations of a live layout (passes, complete or aborted,
\* and removal events, in any order) every saved checkpoint's cursor.parent
\* is the root or a descendant of it, which is what the assertion of
\* restoreCheckpoint needs of the checkpoint a pass resumes from.
CheckpointCursorsUnderRoot == subscribed => Contained(view)

\* C5: while a render is scheduled, the range its single pass will read is
\* the union of the ranges invalidated since the last one (lowest start,
\* highest end), and the pass leaves nothing pending behind it.
BatchIsUnion ==
    /\ scheduled =>
         /\ \E r \in wantLo :
                extractRef(doc, startInvalid) = localRefToPosition(doc, r)
         /\ \E r \in wantHi :
                extractRef(doc, endInvalid) = localRefToPosition(doc, r)
    /\ obs.op = "render" =>
         ~scheduled /\ startInvalid = <<>> /\ endInvalid = <<>>

\* Two inserts, at the front and at the back of a rendered segment, wait for
\* one pass over the whole of [0, 3).
BatchIsUnionWitness ==
    /\ scheduled
    /\ unresolved = {"latest", "earlier"}
    /\ Len(doc.order) = 3
    /\ view.segmentToCheckpoint[doc.order[1]] = <<>>
    /\ view.segmentToCheckpoint[doc.order[2]] # <<>>
    /\ view.segmentToCheckpoint[doc.order[3]] = <<>>
    /\ extractRef(doc, startInvalid) = 0
    /\ extractRef(doc, endInvalid) = 3

\* C6: when onChange has handled an event with removed segments, every node
\* those segments had emitted is out of the tree and out of the
\* node-to-segment index, before any pass runs.
RemovalIsEager ==
    obs.op = "onChange" =>
        \A n \in obs.gone :
            parentNode(view, n) = Null /\ view.nodeToSegmentMap[n] = Null

\* The nodes segment s holds as emitted in v.
EmittedNow(v, s) ==
    IF v.segmentToEmitted[s] = Null THEN {}
    ELSE v.sets[v.segmentToEmitted[s]]

\* C7: after a pass, a node that a visited segment had emitted before and
\* did not emit again is out of the tree and out of the node-to-segment
\* index, and every node the segment emitted is in the tree.
OrphansRemoved ==
    subscribed => \A a, b \in Positions :
        LET v == PassOver(a, b)
        IN v.err = "ok" =>
             \A i \in 1..Len(v.log.visits) :
                 LET s == v.log.visits[i].segment
                 IN /\ \A n \in v.log.visits[i].prior \ EmittedNow(v, s) :
                         /\ parentNode(v, n) = Null
                         /\ v.nodeToSegmentMap[n] = Null
                    /\ \A n \in EmittedNow(v, s) : contains(v, ROOT, n)

\* C8: a second sync over the same range, with no edit in between, changes
\* nothing in the tree.
SecondSyncMutatesNothing ==
    subscribed => \A a, b \in Positions :
        LET v1 == PassOver(a, b)
        IN v1.err = "ok" =>
             LET v2 == sync(doc, Enter(Leave(v1), Null), a, b)
             IN v2.err = "ok" /\ v2.log.muts = 0

\* The segments that end at or before position at.
Before(d, at) ==
    {s \in LiveSegs(d) : SegPosition(d, s) + cachedLength(d, s) <= at}

\* C9: a pass asked to start at position a invokes begin for no segment that
\* ends at or before a, and leaves the checkpoints of those segments as
\* they were: their scopes come back from the resume checkpoint.
NoBeginBeforeResume ==
    subscribed => \A a, b \in Positions :
        LET v == PassOver(a, b)
        IN /\ \A i \in 1..Len(v.log.begins) :
                  v.log.begins[i].segment \notin Before(doc, a)
           /\ \A s \in Before(doc, a) :
                  v.segmentToCheckpoint[s] = view.segmentToCheckpoint[s]

\* An edit past the first segment waits for its pass, which resumes from a
\* checkpoint with open scopes and invokes begin further on.
NoBeginBeforeResumeWitness ==
    /\ subscribed
    /\ scheduled
    /\ obs.op = "onChange"
    /\ LET a == extractRef(doc, startInvalid)
           v == ScheduledPass(Null)
       IN /\ v.err = "ok"
          /\ v.log.begins # <<>>
          /\ v.log.resume[1] > 0
          /\ \E s \in Before(doc, a) :
                /\ view.segmentToCheckpoint[s] # <<>>
                /\ view.segmentToCheckpoint[s][1].formatStack # <<>>

\* C10: in every state between operations, no segment marked removed has a
\* checkpoint, a cached text node or an emitted set.
NoCheckpointForRemoved ==
    \A s \in doc.removed :
        /\ view.segmentToCheckpoint[s] = <<>>
        /\ view.segmentToTextMap[s] = Null
        /\ view.segmentToEmitted[s] = Null

\* C11: a pass over an empty document leaves the root without children: the
\* scheduled pass that follows the removal of the last segment, and any
\* sync(a, b) called when the document has length 0.
EmptyDocumentEmptyRoot ==
    DocLength(doc) = 0 =>
        /\ obs.op \in {"render", "sync"} => view.children[ROOT] = <<>>
        /\ \A a, b \in Positions :
               /\ PassOver(a, b).err = "ok"
               /\ PassOver(a, b).children[ROOT] = <<>>

\* The only segment of a document of length 1 was removed and the scheduled
\* pass has run.
EmptyDocumentEmptyRootWitness ==
    /\ subscribed
    /\ obs.op = "render"
    /\ obs.err = "ok"
    /\ doc.order = <<>>
    /\ Cardinality(doc.removed) = 1
    /\ Cardinality({s \in SegIds : doc.kind[s] # "none"}) = 1

\* The working state of a layout that is not in a pass (lines 167-187).
NotInAPass(v) ==
    /\ v.formatStack = <<>>
    /\ v.cursor = NoCursor
    /\ v.sets[v.pending] = {}
    /\ v.position = Null
    /\ v.segment = Null
    /\ v.startOffset = Null
    /\ v.endOffset = Null

\* C12: when sync(a, b) on a non-empty document returns, or propagates an
\* exception raised once the walk was entered, the format stack is empty, the
\* cursor is cleared, the pending set is empty and position, segment,
\* startOffset and endOffset are back at their sentinels.
CleanupAlwaysRuns ==
    (subscribed /\ DocLength(doc) > 0) => \A a, b \in Positions :
        LET v == PassOver(a, b)
        IN (v.err = "ok" \/ v.log.visits # <<>>) => NotInAPass(v)

\* The nearest segment boundary at or before position at.
BoundaryBefore(d, at) ==
    CHOOSE p \in 0..at :
        /\ p = 0 \/ \E s \in LiveSegs(d) :
                        SegPosition(d, s) + cachedLength(d, s) = p
        /\ \A s \in Before(d, at) :
               SegPosition(d, s) + cachedLength(d, s) <= p

\* The checkpoint a pass that starts at boundary p is to resume from: the one
\* saved for the segment that ends at p, the initial one at 0 or when none
\* is saved.
CheckpointAt(d, v, p) ==
    LET ending == {s \in LiveSegs(d) :
                      /\ SegPosition(d, s) + cachedLength(d, s) = p
                      /\ v.segmentToCheckpoint[s] # <<>>}
    IN IF p = 0 \/ ending = {} THEN <<initialCheckpoint>>
       ELSE v.segmentToCheckpoint[CHOOSE s \in ending : TRUE]

\* C13: sync(a, b) on a non-empty document resumes at the nearest segment
\* boundary at or before a, from the checkpoint saved for the segment that
\* ends there, and from the initial checkpoint at position 0 or when that
\* segment has no checkpoint; the pass does not fail for lack of one.
ResumesFromNearestCheckpoint ==
    (subscribed /\ DocLength(doc) > 0) => \A a, b \in Positions :
        LET p == BoundaryBefore(doc, a)
            r == ResumePoint(doc, view, a)
        IN /\ r.start = p
           /\ r.checkpoint = CheckpointAt(doc, view, p)
           /\ PassOver(a, b).err # "TypeError"

\* The segments the pass that left v visited.
VisitedBy(v) == {v.log.visits[i].segment : i \in 1..Len(v.log.visits)}

\* The pass that left v is to stop after segment s: s had a checkpoint, its
\* position has reached end - 1, and the cursor saved for it is the cursor of
\* that checkpoint.
StopsAfter(v, s) ==
    /\ view.segmentToCheckpoint[s] # <<>>
    /\ SegPosition(doc, s) >= v.log.resume[2] - 1
    /\ v.segmentToCheckpoint[s][1].cursor
           = view.segmentToCheckpoint[s][1].cursor

\* The segments after the last one the pass visited.
NotReached(v) ==
    {s \in LiveSegs(doc) \ VisitedBy(v) :
        SegPosition(doc, s) >= v.log.resume[1]}

\* C14: a pass visits the segments from its resume point on, in order, and
\* stops exactly after the first one that had a checkpoint, lies at or past
\* end - 1 and ends with the cursor of that checkpoint; the segments after it
\* are not visited, and their checkpoints, emitted sets and nodes are as they
\* were before the pass.
EarlyStopLeavesRestAlone ==
    (subscribed /\ DocLength(doc) > 0) => \A a, b \in Positions :
        LET v == PassOver(a, b)
        IN v.err = "ok" =>
             /\ \A i \in 1..Len(v.log.visits) :
                    LET s == v.log.visits[i].segment
                    IN /\ s = visitRange(doc, v.log.resume[1])[i]
                       /\ IF i < Len(v.log.visits) THEN ~StopsAfter(v, s)
                          ELSE \/ StopsAfter(v, s)
                               \/ s = doc.order[Len(doc.order)]
             /\ v.log.visits = <<>> => v.log.resume[1] = DocLength(doc)
             /\ \A s \in NotReached(v) :
                    /\ v.segmentToCheckpoint[s] = view.segmentToCheckpoint[s]
                    /\ EmittedNow(v, s) = EmittedNow(view, s)
                    /\ \A n \in EmittedNow(view, s) :
                           /\ parentNode(v, n) = parentNode(view, n)
                           /\ v.textContent[n] = view.textContent[n]
                           /\ v.nodeToSegmentMap[n] = view.nodeToSegmentMap[n]

\* The content of document d position by position: a character of a text
\* segment, or a paragraph marker (each is known by the identifier of the
\* segment it was inserted as).
RECURSIVE Atoms(_, _)
Atoms(d, n) ==
    IF n = 0 THEN <<>>
    ELSE Atoms(d, n - 1) \o
         (IF d.kind[d.order[n]] = "para" THEN <<d.order[n]>>
          ELSE d.text[d.order[n]])

\* The position of x in d.
PositionOf(d, x) == IndexOf(Atoms(d, Len(d.order)), x) - 1

\* e.start and e.end of the event the document emits when an edit takes it
\* from d to d2.
EventRange(d, d2) ==
    IF d2.removed # d.removed
    THEN LET s == CHOOSE x \in d2.removed : x \notin d.removed
         IN [start |-> SegPosition(d, s),
             end   |-> SegPosition(d, s) + cachedLength(d, s)]
    ELSE LET s == IF Len(d2.order) > Len(d.order)
                  THEN CHOOSE x \in LiveSegs(d2) : x \notin LiveSegs(d)
                  ELSE CHOOSE x \in LiveSegs(d2) : d2.text[x] # d.text[x]
         IN [start |-> SegPosition(d2, s),
             end   |-> SegPosition(d2, s) + cachedLength(d2, s)]

\* An edit heard by the layout: the pending range afterwards holds the
\* event's own range and everything that was pending, where the edit moved
\* it; with nothing pending it is anchored at exactly the event's start and
\* end.
InvalidateStep ==
    (subscribed /\ doc' # doc) =>
        LET e == EventRange(doc, doc')
            lo == extractRef(doc', startInvalid')
            hi == extractRef(doc', endInvalid')
        IN /\ lo <= Min(e.start, DocLength(doc'))
           /\ hi >= Min(e.end, DocLength(doc'))
           /\ scheduled =>
                \A x \in Range(Atoms(doc, Len(doc.order)))
                           \cap Range(Atoms(doc', Len(doc'.order))) :
                    (/\ extractRef(doc, startInvalid) <= PositionOf(doc, x)
                     /\ PositionOf(doc, x) < extractRef(doc, endInvalid))
                    => (lo <= PositionOf(doc', x) /\ PositionOf(doc', x) < hi)
           /\ ~scheduled =>
                /\ startInvalid' = <<addLocalRef(doc', e.start)>>
                /\ endInvalid' = <<addLocalRef(doc', e.end)>>

\* The scheduled pass reads the anchors where they are now, visits every
\* segment inside the range they delimit and leaves the range unset.
RenderStep ==
    (scheduled /\ ~scheduled') =>
        /\ startInvalid' = <<>>
        /\ endInvalid' = <<>>
        /\ LET v == ScheduledPass(Null)
               lo == extractRef(doc, startInvalid)
               hi == extractRef(doc, endInvalid)
           IN (DocLength(doc) > 0 /\ v.err = "ok") =>
                /\ v.log.resume = <<BoundaryBefore(doc, lo), hi>>
                /\ \A s \in LiveSegs(doc) :
                       (lo <= SegPosition(doc, s) /\ SegPosition(doc, s) < hi)
                       => s \in VisitedBy(v)

\* C15: the pending range follows the document.  The first invalidate after
\* a pass or after construction anchors it at exactly its own start and end;
\* edits applied before the scheduled pass keep every invalidated position
\* inside it, wherever they moved it; the pass runs over the positions the
\* anchors have when it runs, and leaves the range unset.
RangeFollowsDocument ==
    [][InvalidateStep /\ RenderStep]_vars

\* Two inserts wait for one pass; the second one, between the first and the
\* rendered segment, pushed the end of the pending range from 1 to 2.
RangeFollowsDocumentWitness ==
    /\ subscribed
    /\ scheduled
    /\ unresolved = {"latest", "earlier"}
    /\ Len(doc.order) = 3
    /\ view.segmentToCheckpoint[doc.order[1]] = <<>>
    /\ view.segmentToCheckpoint[doc.order[2]] = <<>>
    /\ view.segmentToCheckpoint[doc.order[3]] # <<>>
    /\ doc.order[1] < doc.order[2]
    /\ extractRef(doc, startInvalid) = 0
    /\ extractRef(doc, endInvalid) = 2
    /\ endInvalid = <<[seg |-> doc.order[3], off |-> 0]>>

Reverse(s) == [i \in 1..Len(s) |-> s[Len(s) + 1 - i]]

\* The view sync(a, b) has at the end of its try block (line 165), when the
\* checkpoint to resume from could be restored.
WalkOver(a, b) ==
    LET resume == ResumePoint(doc, view, a)
    IN Try(doc,
           restoreCheckpoint(
               [Enter(view, Null) EXCEPT !.log.resume = <<resume.start, b>>,
                                         !.log.length = DocLength(doc)],
               resume.checkpoint),
           resume.start, b)

\* The walk that left w went through the last segment of the document, or
\* started at the document end.
ReachedEnd(w) ==
    IF w.log.visits = <<>> THEN w.log.resume[1] = DocLength(doc)
    ELSE w.log.visits[Len(w.log.visits)].segment = doc.order[Len(doc.order)]

\* C16: a pass whose walk reaches the end of the document, one that starts
\* at the document end included, then invokes end once on each scope still
\* open, innermost first.
EndUnwindsOpenScopes ==
    (subscribed /\ DocLength(doc) > 0) =>
        \A a \in Positions : \A b \in a..DocLength(doc) :
            LET w == WalkOver(a, b)
                v == PassOver(a, b)
            IN (w.err = "ok" /\ ReachedEnd(w)) =>
                   /\ v.err = "ok"
                   /\ v.log.ends = w.log.ends \o Reverse(w.formatStack)

\* C17: at the start of each segment of any pass, pending holds the nodes
\* the segment emitted the last time it was processed (none when it has no
\* recorded set), emitted is an empty Set that is not the pending one and is
\* the set recorded for the segment from then on; the assertions of lines
\* 152-153 do not fail.
SwapStartsClean ==
    (subscribed /\ DocLength(doc) > 0) => \A a, b \in Positions :
        LET v == PassOver(a, b)
        IN \A i \in 1..Len(v.log.visits) :
               LET e == v.log.visits[i]
               IN /\ e.prior = EmittedNow(view, e.segment)
                  /\ e.stale = {}
                  /\ e.emitted # e.pending
                  /\ v.segmentToEmitted[e.segment] = e.emitted

\* A formatter has just thrown in the middle of a pass; the pass over the
\* whole document that follows starts one segment with the nodes it emitted
\* before and one with none.
SwapStartsCleanWitness ==
    /\ obs.op \in {"render", "sync"}
    /\ obs.err = "FormatterError"
    /\ LET v == PassOver(0, DocLength(doc))
       IN /\ v.err = "ok"
          /\ \E i \in 1..Len(v.log.visits) : v.log.visits[i].prior # {}
          /\ \E i \in 1..Len(v.log.visits) : v.log.visits[i].prior = {}

\* The state pushFormat starts from, given the checkpoint the segment had
\* before the pass: the state saved at the depth by the same formatter, or
\* the empty state.
StartingState(v, e) ==
    LET checkpoint == v.segmentToCheckpoint[e.segment]
    IN IF /\ checkpoint # <<>>
          /\ e.depth + 1 <= Len(checkpoint[1].formatStack)
          /\ checkpoint[1].formatStack[e.depth + 1].formatter = e.formatter
       THEN checkpoint[1].formatStack[e.depth + 1].state
       ELSE emptyObject

\* C18: a call pushFormat(formatter) on a live segment at depth d hands begin
\* the state the segment's prior checkpoint holds at index d when the same
\* formatter saved it, and the empty state otherwise (no checkpoint, no entry
\* at d, another formatter); when begin returns the format stack is the old
\* one with one entry for the formatter on top, and when begin throws the
\* stack is the old one.
PushFormatReusesState ==
    [][(obs'.op = "pushFormat" /\ view.segment # Null
            /\ view.segment \notin doc.removed) =>
          /\ Len(view'.log.begins) = 1
          /\ view'.log.begins[1].segment = view.segment
          /\ view'.log.begins[1].depth = Len(view.formatStack)
          /\ view'.log.begins[1].state =
                 StartingState(view, view'.log.begins[1])
          /\ IF view'.err = "ok"
             THEN /\ Len(view'.formatStack) = Len(view.formatStack) + 1
                  /\ SubSeq(view'.formatStack, 1, Len(view.formatStack))
                         = view.formatStack
                  /\ view'.formatStack[Len(view'.formatStack)].formatter
                         = view'.log.begins[1].formatter
             ELSE view'.formatStack = view.formatStack
      ]_vars

\* The second pushFormat on the first segment of the document has just
\* returned: the first one reused the state of the segment's checkpoint, and
\* this one found another formatter at depth 1 of the checkpoint and started
\* from the empty state.
PushFormatReusesStateWitness ==
    /\ obs.op = "pushFormat"
    /\ view.position = 0
    /\ view.log.resume[1] = 0
    /\ view.err = "ok"
    /\ Len(view.log.begins) = 1
    /\ view.segmentToCheckpoint[view.segment] # <<>>
    /\ LET e  == view.log.begins[1]
           cp == view.segmentToCheckpoint[view.segment][1]
       IN /\ e.depth = 1
          /\ Len(cp.formatStack) = 2
          /\ cp.formatStack[1] = view.formatStack[1]
          /\ cp.formatStack[2].formatter # e.formatter
          /\ e.state = emptyObject
          /\ view.formatStack[2].state # emptyObject

\* The call that has just been made threw an assertion error and did
\* nothing else: the cursor, the format stack, the tree and the tables are
\* as they were, and no begin or end was invoked.
FailedAtOnce == view' = [InCall(view) EXCEPT !.err = "AssertionError"]

MayReplace(s) ==
    \/ /\ obs'.op = "visit"
       /\ s = view.segment
       /\ view'.segmentToCheckpoint[s] =
              <<LayoutCheckpoint(view.formatStack, view.cursor)>>
    \/ /\ obs'.op = "render"
       /\ s \in VisitedBy(ScheduledPass(Null))
    \/ /\ obs'.op = "sync"
       /\ InPass(view')
       /\ \E a, b \in Positions :
              /\ s \in VisitedBy(sync(doc, InCall(view), a, b))
              /\ view'.segmentToCheckpoint =
                     sync(doc, InCall(view), a, b).segmentToCheckpoint
    \/ /\ obs'.op = "onChange"
       /\ s \notin LiveSegs(doc')
       /\ view'.segmentToCheckpoint[s] = <<>>

\* C20: a saved checkpoint changes only when saveCheckpoint replaces it for
\* its segment or removeSegment deletes it, whatever pushFormat, popFormat,
\* popNode, emitText (and the pushNode, emitNode they make) and the end-of-pass
\* cleanup do to the cursor and the format stack; and a pass that resumes at
\* position 0 starts its first segment from the initial checkpoint: an empty
\* format stack and the cursor {root, null}.
CheckpointIsSnapshot ==
    [][/\ \A s \in SegIds :
              view'.segmentToCheckpoint[s] # view.segmentToCheckpoint[s]
                  => MayReplace(s)
       /\ (obs'.op = "visitRange" /\ view'.segment # Null
              /\ view'.log.resume[1] = 0)
              => /\ view'.formatStack = <<>>
                 /\ view'.cursor = [parent |-> ROOT, previous |-> Null]
      ]_vars

\* The first call of a pass that resumed after a segment has just returned:
\* the cursor restored from that segment's checkpoint has moved, the format
\* stack has grown, and the checkpoint still holds what it held.
CheckpointIsSnapshotWitness ==
    /\ obs.op = "pushFormat"
    /\ view.err = "ok"
    /\ view.log.calls = 1
    /\ view.log.resume[1] > 0
    /\ view.position = view.log.resume[1]
    /\ LET prev == getSegmentAndOffset(doc, view.position - 1).segment
       IN /\ view.segmentToCheckpoint[prev] # <<>>
          /\ view.segmentToCheckpoint[prev][1].formatStack
                 = SubSeq(view.formatStack, 1, Len(view.formatStack) - 1)
          /\ view.segmentToCheckpoint[prev][1].cursor # view.cursor

====
